---- MODULE Spec2Model ----
(***************************************************************************)
(* A model of the xslog Logger (src/xslog.go, the revision with dynamic    *)
(* level gates and file lifecycle management, lines 184-500).              *)
(*                                                                         *)
(* The Logger's fields, the heap of slog.LevelVar objects, the table of    *)
(* os.File handles and the file system are the state.  Handles and         *)
(* LevelVars are heap objects: they are modelled as sequences and referred *)
(* to by index, 0 standing for nil.                                        *)
(***************************************************************************)
EXTENDS Integers, Sequences, FiniteSets, TLC

\* ------------------------------------------------------------------ bounds
MaxHandles == 3
MaxRecords == 1
\* calls each concurrent thread makes
MaxCalls == 2

\* --------------------------------------------------------- program values
LevelDebug == -4
LevelInfo == 0
LevelWarn == 4
LevelError == 8
Levels == {LevelDebug, LevelInfo, LevelWarn, LevelError}

\* The paths of src/examples/basic.go: one with a directory part, and the
\* bare file name of the README.
PathA == "logs/app.log"
PathB == "app.log"
Paths == {PathA, PathB}

\* dir, _ := filepath.Split(path); len(dir) > 0
HasDir(p) == p = PathA

VARIABLES
    phase,            \* "none": before NewLogger; "live": a Logger was returned;
                      \* "failed": NewLogger returned (nil, err)
    config,           \* ml.config
    consoleLogger,    \* ml.consoleLogger: [isNil, level] (level: index of its LevelVar)
    fileLogger,       \* ml.fileLogger: [isNil, out, level] (out: handle it writes to)
    consoleLevelVar,  \* ml.consoleLevelVar: index into levelVars
    fileLevelVar,     \* ml.fileLevelVar: index into levelVars
    fileWriter,       \* ml.fileWriter: handle index, 0 = nil interface
    levelVars,        \* heap of slog.LevelVar: sequence of levels
    handles,          \* every os.File opened: [path, open, closedBy, reclosed]
    fs,               \* file system: [dirs, files, lines]
    console,          \* number of lines written to os.Stdout
    last,             \* the call that returned last, with its result
    setConsole,       \* level of the latest SetConsoleLevel (initially the configured one)
    setFile,          \* level of the latest SetFileLevel (initially the configured one)
    pc,               \* per thread: position inside the call it is executing
    loc               \* per thread: the call's arguments and local variables

loggerVars == <<config, consoleLogger, fileLogger, consoleLevelVar, fileLevelVar,
                fileWriter, levelVars>>
envVars == <<handles, fs, console>>
threadVars == <<pc, loc>>
vars == <<phase, loggerVars, envVars, last, setConsole, setFile, threadVars>>

Threads == {1, 2}

NilConsoleLogger == [isNil |-> TRUE, level |-> 0]
NilFileLogger == [isNil |-> TRUE, out |-> 0, level |-> 0]

\* The result of a call: which call returned, and whether it returned an error;
\* for EnableConsole and EnableFile also the flag they were called with, and
\* for Debug/Info/Warn/Error the level logged at (slog's zero level, Info,
\* for every other call).  A call made on its own that returns an error also
\* records the system call the error came from.
Ret(op, err) ==
    [op |-> op, err |-> err, enable |-> FALSE, level |-> LevelInfo, step |-> ""]
RetEnable(op, enable, err) == [Ret(op, err) EXCEPT !.enable = enable]
RetLog(level) == [Ret("Log", FALSE) EXCEPT !.level = level]
\* `return err` after closer.Close(), os.MkdirAll or os.OpenFile
RetFrom(r, step) == [r EXCEPT !.step = IF r.err THEN step ELSE ""]

\* A thread's frame: the call's arguments (enable, path, level), the handle
\* it holds in a local (file, or the handler's writer), the LevelVar of the
\* handler it called, whether that writer was open when the call's
\* enabled-check passed, the number of calls the thread has made, and the
\* number of its records that passed the console sink's threshold.
IdleLoc == [enable |-> FALSE, path |-> "", level |-> LevelInfo,
            h |-> 0, gate |-> 0, live |-> FALSE, n |-> 0, sent |-> 0]

\* ------------------------------------------------------------ os and slog
\* An open that ignores the path it is given.
OpenFile_Fixed(hs, p) ==
    Append(hs, [path |-> PathA, open |-> TRUE, closedBy |-> "", reclosed |-> FALSE])

\* os.OpenFile(path, O_CREATE|O_WRONLY|O_APPEND, 0666) succeeding: a new handle.
OpenFile(hs, p) ==
    Append(hs, [path |-> p, open |-> TRUE, closedBy |-> "", reclosed |-> FALSE])

\* (*os.File).Close called by operation `by`: the first call releases the
\* descriptor (whether or not it reports an error) and is remembered in
\* closedBy; a later call releases nothing, returns os.ErrClosed and is
\* remembered in reclosed.
CloseFile(hs, h, by) ==
    [hs EXCEPT ![h] = IF hs[h].open
                         THEN [@ EXCEPT !.open = FALSE, !.closedBy = by]
                         ELSE [@ EXCEPT !.reclosed = TRUE]]

\* The error of (*os.File).Close: ErrClosed on a closed file, else the
\* outcome of the system call.
CloseErr(hs, h, closeOk) == ~hs[h].open \/ ~closeOk

\* os.MkdirAll(dir, 0755) succeeding
MkdirAll(f, p) == [f EXCEPT !.dirs = @ \cup {p}]

\* O_CREATE on a successful open
CreateFile(f, p) == [f EXCEPT !.files = @ \cup {p}]

\* one line appended through an open handle
AppendLine(f, p) == [f EXCEPT !.lines[p] = @ + 1]

\* A handler that ignores its gate.
Enabled_Always(level, gate) == TRUE

\* TxtColoredHandler.Enabled, and slog's commonHandler.enabled for the JSON
\* handler: level >= opts.Level.Level()
Enabled(level, gate) == level >= gate

\* ------------------------------------------------------------------- Init
Init ==
    /\ phase = "none"
    /\ config = [LogToConsole |-> FALSE, LogToFile |-> FALSE, LogFilePath |-> PathA,
                 LevelForFile |-> LevelInfo, LevelForConsole |-> LevelInfo]
    /\ consoleLogger = NilConsoleLogger
    /\ fileLogger = NilFileLogger
    /\ consoleLevelVar = 0
    /\ fileLevelVar = 0
    /\ fileWriter = 0
    /\ levelVars = <<>>
    /\ handles = <<>>
    /\ fs = [dirs |-> {}, files |-> {}, lines |-> [p \in Paths |-> 0]]
    /\ console = 0
    /\ last = Ret("", FALSE)
    /\ setConsole = LevelInfo
    /\ setFile = LevelInfo
    /\ pc = [t \in Threads |-> "idle"]
    /\ loc = [t \in Threads |-> IdleLoc]

Configs ==
    [LogToConsole : BOOLEAN, LogToFile : BOOLEAN, LogFilePath : Paths,
     LevelForFile : Levels, LevelForConsole : Levels]

\* ------------------------------------------------------------- NewLogger
\* A constructor that returns its Logger whatever happened.
Returned_Always(failed) == "live"

\* `return nil, err` against `return ml, nil`
Returned(failed) == IF failed THEN "failed" ELSE "live"

NewLogger(cfg, mkdirOk, openOk) ==
    /\ phase = "none"
    /\ LET needDir == cfg.LogToFile /\ HasDir(cfg.LogFilePath)
           failed == cfg.LogToFile /\ ((needDir /\ ~mkdirOk) \/ ~openOk)
           fs1 == IF needDir /\ mkdirOk THEN MkdirAll(fs, cfg.LogFilePath) ELSE fs
       IN  /\ phase' = Returned(failed)
           /\ config' = cfg
           /\ levelVars' = <<cfg.LevelForConsole, cfg.LevelForFile>>
           /\ consoleLevelVar' = 1
           /\ fileLevelVar' = 2
           /\ consoleLogger' = IF cfg.LogToConsole
                                 THEN [isNil |-> FALSE, level |-> 1]
                                 ELSE NilConsoleLogger
           /\ IF cfg.LogToFile /\ ~failed
                 THEN /\ handles' = OpenFile(handles, cfg.LogFilePath)
                      /\ fileWriter' = Len(handles) + 1
                      /\ fileLogger' = [isNil |-> FALSE, out |-> Len(handles) + 1,
                                        level |-> 2]
                      /\ fs' = CreateFile(fs1, cfg.LogFilePath)
                 ELSE /\ handles' = handles
                      /\ fileWriter' = 0
                      /\ fileLogger' = NilFileLogger
                      /\ fs' = fs1
           /\ last' = RetFrom(Ret("NewLogger", failed),
                               IF needDir /\ ~mkdirOk THEN "mkdir" ELSE "open")
           /\ setConsole' = cfg.LevelForConsole
           /\ setFile' = cfg.LevelForFile
    /\ UNCHANGED <<console, threadVars>>

\* A Logger that forgets to close: the handle table is left as it was.
ClosePhase_Skip(hs, fw, by) == hs

\* A Logger that ignores the error of Close.
ClosePhaseErr_Never(hs, fw, closeOk) == FALSE

\* The pattern `if closer, ok := ml.fileWriter.(io.Closer); ok { closer.Close() }`:
\* a nil fileWriter is no io.Closer, anything else is closed.
ClosePhase(hs, fw, by) == IF fw # 0 THEN CloseFile(hs, fw, by) ELSE hs
ClosePhaseErr(hs, fw, closeOk) == fw # 0 /\ CloseErr(hs, fw, closeOk)

\* ----------------------------------------------------------------- Close
Close(closeOk) ==
    /\ phase = "live"
    /\ handles' = ClosePhase(handles, fileWriter, "Close")
    /\ last' = RetFrom(Ret("Close", ClosePhaseErr(handles, fileWriter, closeOk)),
                        "close")
    /\ UNCHANGED <<phase, loggerVars, fs, console, setConsole, setFile, threadVars>>

\* slog.New(slog.NewJSONHandler(file, &slog.HandlerOptions{Level: levelVar}))
NewFileLogger(file, levelVar) == [isNil |-> FALSE, out |-> file, level |-> levelVar]

\* A console sink built around the gate made by NewLogger, whatever gate it
\* is given.
NewConsoleLogger_FirstGate(levelVar) == [isNil |-> FALSE, level |-> 1]

\* slog.New(NewTxtColoredHandler(os.Stdout, &slog.HandlerOptions{Level: levelVar}))
NewConsoleLogger(levelVar) == [isNil |-> FALSE, level |-> levelVar]

\* ------------------------------------------------- level setters, getters
SetConsoleLevel(level) ==
    /\ phase = "live"
    /\ levelVars' = IF consoleLevelVar # 0
                       THEN [levelVars EXCEPT ![consoleLevelVar] = level]
                       ELSE levelVars
    /\ setConsole' = level
    /\ last' = Ret("SetConsoleLevel", FALSE)
    /\ UNCHANGED <<phase, config, consoleLogger, fileLogger, consoleLevelVar,
                   fileLevelVar, fileWriter, envVars, setFile, threadVars>>

SetFileLevel(level) ==
    /\ phase = "live"
    /\ levelVars' = IF fileLevelVar # 0
                       THEN [levelVars EXCEPT ![fileLevelVar] = level]
                       ELSE levelVars
    /\ setFile' = level
    /\ last' = Ret("SetFileLevel", FALSE)
    /\ UNCHANGED <<phase, config, consoleLogger, fileLogger, consoleLevelVar,
                   fileLevelVar, fileWriter, envVars, setConsole, threadVars>>

GetConsoleLevel == IF consoleLevelVar # 0 THEN levelVars[consoleLevelVar] ELSE LevelInfo
GetFileLevel == IF fileLevelVar # 0 THEN levelVars[fileLevelVar] ELSE LevelInfo

\* --------------------------------------------------------- EnableConsole
EnableConsole(enable) ==
    /\ phase = "live"
    /\ IF enable /\ ~config.LogToConsole /\ consoleLogger.isNil
          THEN /\ levelVars' = Append(levelVars, config.LevelForConsole)
               /\ consoleLevelVar' = Len(levelVars) + 1
               /\ consoleLogger' = NewConsoleLogger(Len(levelVars) + 1)
          ELSE UNCHANGED <<levelVars, consoleLevelVar, consoleLogger>>
    /\ config' = [config EXCEPT !.LogToConsole = enable]
    /\ last' = RetEnable("EnableConsole", enable, FALSE)
    /\ UNCHANGED <<phase, fileLogger, fileLevelVar, fileWriter, envVars,
                   setConsole, setFile, threadVars>>

\* ------------------------------------------------------------ EnableFile
EnableFile(enable, closeOk, mkdirOk, openOk) ==
    /\ phase = "live"
    /\ IF ~enable /\ config.LogToFile
          THEN \* disable: clear the flag, close the handle, keep every reference
                          /\ config' = [config EXCEPT !.LogToFile = FALSE]
               /\ handles' = ClosePhase(handles, fileWriter, "EnableFile")
               /\ last' = RetFrom(RetEnable("EnableFile", enable,
                                     ClosePhaseErr(handles, fileWriter, closeOk)),
                                   "close")
               /\ UNCHANGED <<fileWriter, fileLevelVar, fileLogger, levelVars, fs>>
          ELSE IF enable /\ ~config.LogToFile /\ fileLogger.isNil
          THEN LET needDir == HasDir(config.LogFilePath)
                   failed == (needDir /\ ~mkdirOk) \/ ~openOk
                   fs1 == IF needDir /\ mkdirOk
                             THEN MkdirAll(fs, config.LogFilePath) ELSE fs
               IN  /\ last' = RetFrom(RetEnable("EnableFile", enable, failed),
                                       IF needDir /\ ~mkdirOk THEN "mkdir" ELSE "open")
                   /\ IF failed
                         THEN /\ fs' = fs1
                              /\ UNCHANGED <<config, handles, fileWriter, fileLevelVar,
                                             fileLogger, levelVars>>
                         ELSE /\ Len(handles) < MaxHandles
                              /\ fs' = CreateFile(fs1, config.LogFilePath)
                              /\ handles' = OpenFile(handles, config.LogFilePath)
                              /\ fileWriter' = Len(handles) + 1
                              /\ levelVars' = Append(levelVars, config.LevelForFile)
                              /\ fileLevelVar' = Len(levelVars) + 1
                              /\ fileLogger' = NewFileLogger(Len(handles) + 1,
                                                             Len(levelVars) + 1)
                              /\ config' = [config EXCEPT !.LogToFile = TRUE]
          ELSE /\ last' = RetEnable("EnableFile", enable, FALSE)
               /\ UNCHANGED <<config, handles, fileWriter, fileLevelVar, fileLogger,
                              levelVars, fs>>
    /\ UNCHANGED <<phase, consoleLogger, consoleLevelVar, console, setConsole,
                   setFile, threadVars>>

\* -------------------------------------------------------- ChangeFilePath
\* A path change that forgets to store the new path.
Repoint_Forget(cfg, newPath) == cfg

\* ml.config.LogFilePath = newPath
Repoint(cfg, newPath) == [cfg EXCEPT !.LogFilePath = newPath]

ChangeFilePath(newPath, closeOk, mkdirOk, openOk) ==
    /\ phase = "live"
    /\ IF config.LogFilePath = newPath
          THEN /\ last' = Ret("ChangeFilePath", FALSE)
               /\ UNCHANGED <<config, handles, fileWriter, fileLogger, fs>>
          ELSE IF ~config.LogToFile
          THEN /\ config' = Repoint(config, newPath)
               /\ last' = Ret("ChangeFilePath", FALSE)
               /\ UNCHANGED <<handles, fileWriter, fileLogger, fs>>
          ELSE LET closeErr == ClosePhaseErr(handles, fileWriter, closeOk)
                   hs1 == ClosePhase(handles, fileWriter, "ChangeFilePath")
                   \* filepath.Dir(newPath) is "." for a bare file name, which exists
                   mkdirErr == HasDir(newPath) /\ ~mkdirOk
                   fs1 == IF HasDir(newPath) /\ mkdirOk THEN MkdirAll(fs, newPath) ELSE fs
               IN  /\ IF closeErr
                         THEN /\ handles' = hs1
                              /\ last' = RetFrom(Ret("ChangeFilePath", TRUE), "close")
                              /\ UNCHANGED <<config, fileWriter, fileLogger, fs>>
                         ELSE IF mkdirErr \/ ~openOk
                         THEN /\ handles' = hs1
                              /\ fs' = IF mkdirErr THEN fs ELSE fs1
                              /\ last' = RetFrom(Ret("ChangeFilePath", TRUE),
                                                  IF mkdirErr THEN "mkdir" ELSE "open")
                              /\ UNCHANGED <<config, fileWriter, fileLogger>>
                         ELSE /\ Len(handles) < MaxHandles
                              /\ handles' = OpenFile(hs1, newPath)
                              /\ fs' = CreateFile(fs1, newPath)
                              /\ config' = Repoint(config, newPath)
                              /\ fileWriter' = Len(handles) + 1
                              /\ fileLogger' = NewFileLogger(Len(handles) + 1,
                                                             fileLevelVar)
                              /\ last' = Ret("ChangeFilePath", FALSE)
    /\ UNCHANGED <<phase, consoleLogger, consoleLevelVar, fileLevelVar, levelVars,
                   console, setConsole, setFile, threadVars>>

\* ------------------------------------------- Debug / Info / Warn / Error
\* The four methods differ only in the level they pass to slog.
\* ml.config.LogToConsole && ml.consoleLogger != nil, then slog's Enabled check
ConsoleEmits(level) ==
    /\ config.LogToConsole
    /\ ~consoleLogger.isNil
    /\ Enabled(level, levelVars[consoleLogger.level])

\* ml.config.LogToFile && ml.fileLogger != nil: the file logger is called
FileDispatched == config.LogToFile /\ ~fileLogger.isNil

\* the JSON handler passes its gate and calls Write on its file
FileEmits(level) ==
    FileDispatched /\ Enabled(level, levelVars[fileLogger.level])

\* Write succeeds on an open file only (os.ErrClosed otherwise, which slog drops)
FileWrites(level) == FileEmits(level) /\ handles[fileLogger.out].open

Log(level) ==
    /\ phase = "live"
    /\ ConsoleEmits(level) => console < MaxRecords
    /\ FileWrites(level) => fs.lines[handles[fileLogger.out].path] < MaxRecords
    /\ console' = IF ConsoleEmits(level) THEN console + 1 ELSE console
    /\ fs' = IF FileWrites(level)
                THEN AppendLine(fs, handles[fileLogger.out].path)
                ELSE fs
    /\ last' = RetLog(level)
    /\ UNCHANGED <<phase, loggerVars, handles, setConsole, setFile, threadVars>>

\* The step of a call that the operating system fails, if any.  A call stops
\* at its first failure, so one failing step per call covers every outcome.
Failures == {"none", "close", "mkdir", "open"}

\* ----------------------------------------------- the file sink's lifecycle
\* Calls made one at a time on a Logger built without a console sink, every
\* system call free to fail.  The console calls (EnableConsole,
\* SetConsoleLevel) write console fields only; they are exercised in
\* SpecLevels.
\* The initial file levels tried: slog's zero value (Info), as in the README,
\* and Debug, as in src/examples/basic.go.
FileConfigs ==
    {cfg \in Configs : /\ ~cfg.LogToConsole
                       /\ cfg.LevelForConsole = LevelInfo
                       /\ cfg.LevelForFile \in {LevelInfo, LevelDebug}}

NewLoggerCall == \E cfg \in FileConfigs, fail \in Failures \ {"close"} :
                    NewLogger(cfg, fail # "mkdir", fail # "open")
CloseCall == \E fail \in {"none", "close"} : Close(fail # "close")
SetFileLevelCall == \E level \in Levels : SetFileLevel(level)
EnableFileCall == \E enable \in BOOLEAN, fail \in Failures :
                     EnableFile(enable, fail # "close", fail # "mkdir", fail # "open")
ChangeFilePathCall == \E newPath \in Paths, fail \in Failures :
                         ChangeFilePath(newPath, fail # "close", fail # "mkdir",
                                        fail # "open")
LogCall == \E level \in Levels : Log(level)

Next ==
    \/ NewLoggerCall
    \/ SetFileLevelCall
    \/ EnableFileCall
    \/ ChangeFilePathCall
    \/ CloseCall
    \/ LogCall

Spec == Init /\ [][Next]_vars

\* ------------------------------------------------------- the level gates
\* Calls made one at a time on every kind of Logger, with both sinks, every
\* level and no failing system call.
\* The initial levels tried: Info and Debug, as above.
LevelConfigs ==
    {cfg \in Configs : /\ cfg.LogFilePath = PathA
                       /\ cfg.LevelForConsole \in {LevelInfo, LevelDebug}
                       /\ cfg.LevelForFile \in {LevelInfo, LevelDebug}}

NewLoggerOk == \E cfg \in LevelConfigs : NewLogger(cfg, TRUE, TRUE)
SetConsoleLevelCall == \E level \in Levels : SetConsoleLevel(level)
EnableConsoleCall == \E enable \in BOOLEAN : EnableConsole(enable)
EnableFileOk == \E enable \in BOOLEAN : EnableFile(enable, TRUE, TRUE, TRUE)

NextLevels ==
    \/ NewLoggerOk
    \/ SetConsoleLevelCall
    \/ SetFileLevelCall
    \/ EnableConsoleCall
    \/ EnableFileOk
    \/ LogCall

SpecLevels == Init /\ [][NextLevels]_vars

\* ------------------------------------------- the gates and the sinks' life
\* Every call of the Logger, made one at a time with no failing system call,
\* on a Logger configured at slog's zero level (Info) for both sinks; the
\* levels set and logged at are Info and Warn.
GateLevels == {LevelInfo, LevelWarn}
GateConfigs ==
    {cfg \in Configs : /\ cfg.LogFilePath = PathA
                       /\ cfg.LevelForConsole = LevelInfo
                       /\ cfg.LevelForFile = LevelInfo}

NewLoggerGates == \E cfg \in GateConfigs : NewLogger(cfg, TRUE, TRUE)
SetConsoleLevelGates == \E level \in GateLevels : SetConsoleLevel(level)
SetFileLevelGates == \E level \in GateLevels : SetFileLevel(level)
ChangeFilePathOk == \E newPath \in Paths : ChangeFilePath(newPath, TRUE, TRUE, TRUE)
CloseOk == Close(TRUE)
LogGates == \E level \in GateLevels : Log(level)

NextGates ==
    \/ NewLoggerGates
    \/ SetConsoleLevelGates
    \/ SetFileLevelGates
    \/ EnableConsoleCall
    \/ EnableFileOk
    \/ ChangeFilePathOk
    \/ CloseOk
    \/ LogGates

SpecGates == Init /\ [][NextGates]_vars

\* ================================================== concurrent callers
\* The Logger takes no lock of its own (only TxtColoredHandler.Handle and the
\* JSON handler lock, each around one write).  Two threads call the Logger;
\* a call is a sequence of steps, one per access to the Logger's fields or
\* per system call, and the steps of the two threads interleave.
Return(t, op, err) ==
    /\ pc' = [pc EXCEPT ![t] = "idle"]
    /\ loc' = [loc EXCEPT ![t] = [IdleLoc EXCEPT !.n = loc[t].n,
                                                 !.sent = loc[t].sent]]
    /\ last' = [RetEnable(op, loc[t].enable, err) EXCEPT !.level = loc[t].level]

Goto(t, label) == pc' = [pc EXCEPT ![t] = label]

\* The levels the concurrent callers log at.
ConcLevels == {LevelInfo, LevelError}

\* A thread enters Info/Warn/Error/Debug, EnableFile, ChangeFilePath or Close.
Begin(t) ==
    /\ phase = "live"
    /\ pc[t] = "idle"
    /\ loc[t].n < MaxCalls
    /\ \/ \E level \in ConcLevels :
             /\ loc' = [loc EXCEPT ![t].level = level, ![t].n = @ + 1]
             /\ Goto(t, "log_console")
       \/ \E enable \in BOOLEAN :
             /\ loc' = [loc EXCEPT ![t].enable = enable, ![t].n = @ + 1]
             /\ Goto(t, "ef_check")
       \/ \E newPath \in Paths :
             /\ loc' = [loc EXCEPT ![t].path = newPath, ![t].n = @ + 1]
             /\ Goto(t, "cfp_check")
       \/ /\ loc' = [loc EXCEPT ![t].n = @ + 1]
          /\ Goto(t, "close")
    /\ UNCHANGED <<phase, loggerVars, envVars, last, setConsole, setFile>>

\* Info, first statement: the console sink (Handle runs under the handler's mutex).
LogConsole(t) ==
    /\ pc[t] = "log_console"
    /\ ConsoleEmits(loc[t].level) => console < MaxRecords
    /\ console' = IF ConsoleEmits(loc[t].level) THEN console + 1 ELSE console
    /\ Goto(t, "log_check")
    /\ UNCHANGED <<phase, loggerVars, handles, fs, last, setConsole, setFile, loc>>

\* Info, second statement, the condition: ml.config.LogToFile && ml.fileLogger != nil;
\* when it holds, ml.fileLogger is read and called.
LogCheck(t) ==
    /\ pc[t] = "log_check"
    /\ IF FileDispatched
          THEN /\ loc' = [loc EXCEPT ![t].h = fileLogger.out,
                                     ![t].gate = fileLogger.level,
                                     ![t].live = handles[fileLogger.out].open]
               /\ Goto(t, "log_file")
               /\ last' = last
          ELSE Return(t, "Log", FALSE)
    /\ UNCHANGED <<phase, loggerVars, envVars, setConsole, setFile>>

\* the JSON handler this thread called consults its gate and writes to its file
LogWrites(t) == Enabled(loc[t].level, levelVars[loc[t].gate])

LogFile(t) ==
    /\ pc[t] = "log_file"
    /\ LET wrote == LogWrites(t) /\ handles[loc[t].h].open
           p == handles[loc[t].h].path
       IN  /\ wrote => fs.lines[p] < MaxRecords
           /\ fs' = IF wrote THEN AppendLine(fs, p) ELSE fs
    /\ Return(t, "Log", FALSE)
    /\ UNCHANGED <<phase, loggerVars, handles, console, setConsole, setFile>>

\* EnableFile: the two conditions
EfCheck(t) ==
    /\ pc[t] = "ef_check"
    /\ IF ~loc[t].enable /\ config.LogToFile
          THEN Goto(t, "ef_disable") /\ UNCHANGED <<loc, last>>
          ELSE IF loc[t].enable /\ ~config.LogToFile /\ fileLogger.isNil
          THEN Goto(t, "ef_mkdir") /\ UNCHANGED <<loc, last>>
          ELSE Return(t, "EnableFile", FALSE)
    /\ UNCHANGED <<phase, loggerVars, envVars, setConsole, setFile>>

\* ml.config.LogToFile = false
EfDisable(t) ==
    /\ pc[t] = "ef_disable"
    /\ config' = [config EXCEPT !.LogToFile = FALSE]
    /\ Goto(t, "ef_close")
    /\ UNCHANGED <<phase, consoleLogger, fileLogger, consoleLevelVar, fileLevelVar,
                   fileWriter, levelVars, envVars, last, setConsole, setFile, loc>>

\* return closer.Close()
EfClose(t, closeOk) ==
    /\ pc[t] = "ef_close"
    /\ handles' = ClosePhase(handles, fileWriter, "EnableFile")
    /\ Return(t, "EnableFile", ClosePhaseErr(handles, fileWriter, closeOk))
    /\ UNCHANGED <<phase, loggerVars, fs, console, setConsole, setFile>>

\* filepath.Split and os.MkdirAll
EfMkdir(t, mkdirOk) ==
    /\ pc[t] = "ef_mkdir"
    /\ IF HasDir(config.LogFilePath) /\ ~mkdirOk
          THEN /\ Return(t, "EnableFile", TRUE)
               /\ fs' = fs
          ELSE /\ fs' = IF HasDir(config.LogFilePath)
                           THEN MkdirAll(fs, config.LogFilePath) ELSE fs
               /\ Goto(t, "ef_open")
               /\ UNCHANGED <<loc, last>>
    /\ UNCHANGED <<phase, loggerVars, handles, console, setConsole, setFile>>

\* file, err := os.OpenFile(ml.config.LogFilePath, ...)
EfOpen(t, openOk) ==
    /\ pc[t] = "ef_open"
    /\ IF ~openOk
          THEN /\ Return(t, "EnableFile", TRUE)
               /\ UNCHANGED <<handles, fs>>
          ELSE /\ Len(handles) < MaxHandles
               /\ handles' = OpenFile(handles, config.LogFilePath)
               /\ fs' = CreateFile(fs, config.LogFilePath)
               /\ loc' = [loc EXCEPT ![t].h = Len(handles) + 1]
               /\ Goto(t, "ef_store")
               /\ last' = last
    /\ UNCHANGED <<phase, loggerVars, console, setConsole, setFile>>

\* the four assignments that install the new sink
EfStore(t) ==
    /\ pc[t] = "ef_store"
    /\ fileWriter' = loc[t].h
    /\ levelVars' = Append(levelVars, config.LevelForFile)
    /\ fileLevelVar' = Len(levelVars) + 1
    /\ fileLogger' = NewFileLogger(loc[t].h, Len(levelVars) + 1)
    /\ config' = [config EXCEPT !.LogToFile = TRUE]
    /\ Return(t, "EnableFile", FALSE)
    /\ UNCHANGED <<phase, consoleLogger, consoleLevelVar, envVars, setConsole, setFile>>

\* ChangeFilePath: the two early returns
CfpCheck(t) ==
    /\ pc[t] = "cfp_check"
    /\ IF config.LogFilePath = loc[t].path
          THEN /\ Return(t, "ChangeFilePath", FALSE)
               /\ config' = config
          ELSE IF ~config.LogToFile
          THEN /\ config' = Repoint(config, loc[t].path)
               /\ Return(t, "ChangeFilePath", FALSE)
          ELSE /\ Goto(t, "cfp_close")
               /\ UNCHANGED <<config, loc, last>>
    /\ UNCHANGED <<phase, consoleLogger, fileLogger, consoleLevelVar, fileLevelVar,
                   fileWriter, levelVars, envVars, setConsole, setFile>>

\* closing the existing file
CfpClose(t, closeOk) ==
    /\ pc[t] = "cfp_close"
    /\ handles' = ClosePhase(handles, fileWriter, "ChangeFilePath")
    /\ IF ClosePhaseErr(handles, fileWriter, closeOk)
          THEN Return(t, "ChangeFilePath", TRUE)
          ELSE Goto(t, "cfp_mkdir") /\ UNCHANGED <<loc, last>>
    /\ UNCHANGED <<phase, loggerVars, fs, console, setConsole, setFile>>

\* os.MkdirAll(filepath.Dir(newPath), 0755)
CfpMkdir(t, mkdirOk) ==
    /\ pc[t] = "cfp_mkdir"
    /\ IF HasDir(loc[t].path) /\ ~mkdirOk
          THEN /\ Return(t, "ChangeFilePath", TRUE)
               /\ fs' = fs
          ELSE /\ fs' = IF HasDir(loc[t].path) THEN MkdirAll(fs, loc[t].path) ELSE fs
               /\ Goto(t, "cfp_open")
               /\ UNCHANGED <<loc, last>>
    /\ UNCHANGED <<phase, loggerVars, handles, console, setConsole, setFile>>

\* file, err := os.OpenFile(newPath, ...)
CfpOpen(t, openOk) ==
    /\ pc[t] = "cfp_open"
    /\ IF ~openOk
          THEN /\ Return(t, "ChangeFilePath", TRUE)
               /\ UNCHANGED <<handles, fs>>
          ELSE /\ Len(handles) < MaxHandles
               /\ handles' = OpenFile(handles, loc[t].path)
               /\ fs' = CreateFile(fs, loc[t].path)
               /\ loc' = [loc EXCEPT ![t].h = Len(handles) + 1]
               /\ Goto(t, "cfp_store")
               /\ last' = last
    /\ UNCHANGED <<phase, loggerVars, console, setConsole, setFile>>

\* the three assignments that install the new path, writer and sink
CfpStore(t) ==
    /\ pc[t] = "cfp_store"
    /\ config' = Repoint(config, loc[t].path)
    /\ fileWriter' = loc[t].h
    /\ fileLogger' = NewFileLogger(loc[t].h, fileLevelVar)
    /\ Return(t, "ChangeFilePath", FALSE)
    /\ UNCHANGED <<phase, consoleLogger, consoleLevelVar, fileLevelVar, levelVars,
                   envVars, setConsole, setFile>>

\* Close: one read of ml.fileWriter and one Close
CloseStep(t, closeOk) ==
    /\ pc[t] = "close"
    /\ handles' = ClosePhase(handles, fileWriter, "Close")
    /\ Return(t, "Close", ClosePhaseErr(handles, fileWriter, closeOk))
    /\ UNCHANGED <<phase, loggerVars, fs, console, setConsole, setFile>>

BeginStep == \E t \in Threads : Begin(t)
LogConsoleStep == \E t \in Threads : LogConsole(t)
LogCheckStep == \E t \in Threads : LogCheck(t)
LogFileStep == \E t \in Threads : LogFile(t)
EfCheckStep == \E t \in Threads : EfCheck(t)
EfDisableStep == \E t \in Threads : EfDisable(t)
EfCloseStep == \E t \in Threads, closeOk \in BOOLEAN : EfClose(t, closeOk)
EfMkdirStep == \E t \in Threads, mkdirOk \in BOOLEAN : EfMkdir(t, mkdirOk)
EfOpenStep == \E t \in Threads, openOk \in BOOLEAN : EfOpen(t, openOk)
EfStoreStep == \E t \in Threads : EfStore(t)
CfpCheckStep == \E t \in Threads : CfpCheck(t)
CfpCloseStep == \E t \in Threads, closeOk \in BOOLEAN : CfpClose(t, closeOk)
CfpMkdirStep == \E t \in Threads, mkdirOk \in BOOLEAN : CfpMkdir(t, mkdirOk)
CfpOpenStep == \E t \in Threads, openOk \in BOOLEAN : CfpOpen(t, openOk)
CfpStoreStep == \E t \in Threads : CfpStore(t)
CloseStepAny == \E t \in Threads, closeOk \in BOOLEAN : CloseStep(t, closeOk)

NextConc ==
    \/ NewLoggerCall
    \/ BeginStep
    \/ LogConsoleStep
    \/ LogCheckStep
    \/ LogFileStep
    \/ EfCheckStep
    \/ EfDisableStep
    \/ EfCloseStep
    \/ EfMkdirStep
    \/ EfOpenStep
    \/ EfStoreStep
    \/ CfpCheckStep
    \/ CfpCloseStep
    \/ CfpMkdirStep
    \/ CfpOpenStep
    \/ CfpStoreStep
    \/ CloseStepAny

SpecConc == Init /\ [][NextConc]_vars

\* ================================== concurrent callers of the console sink
\* Threads that only log, through a Logger whose console sink was built by
\* NewLogger or by an EnableConsole(true) made before the first of them
\* starts.  slog.Logger.Info asks the handler's Enabled and then calls
\* Handle, which is modelled step by step: Lock, format, Fprintln, Unlock.
ConsoleConfigs ==
    {cfg \in Configs : /\ ~cfg.LogToFile
                       /\ cfg.LogFilePath = PathA
                       /\ cfg.LevelForFile = LevelInfo
                       /\ cfg.LevelForConsole \in {LevelInfo, LevelWarn}}

NewLoggerConsole == \E cfg \in ConsoleConfigs : NewLogger(cfg, TRUE, TRUE)

\* no thread has made a call yet
NotStarted == \A t \in Threads : pc[t] = "idle" /\ loc[t].n = 0

EnableConsoleFirst == NotStarted /\ EnableConsole(TRUE)

\* A thread enters Info/Warn/Error/Debug.
BeginLog(t) ==
    /\ phase = "live"
    /\ pc[t] = "idle"
    /\ loc[t].n < MaxCalls
    /\ \E level \in ConcLevels :
          loc' = [loc EXCEPT ![t].level = level, ![t].n = @ + 1]
    /\ Goto(t, "con_check")
    /\ UNCHANGED <<phase, loggerVars, envVars, last, setConsole, setFile>>

\* ml.config.LogToConsole && ml.consoleLogger != nil, then the handler's
\* Enabled; the handler called is remembered by the LevelVar it was built on
\* (each handler is built on a LevelVar of its own).
ConCheck(t) ==
    /\ pc[t] = "con_check"
    /\ IF ConsoleEmits(loc[t].level)
          THEN /\ loc' = [loc EXCEPT ![t].gate = consoleLogger.level,
                                     ![t].sent = @ + 1]
               /\ Goto(t, "con_lock")
          ELSE /\ loc' = loc
               /\ Goto(t, "log_check")
    /\ UNCHANGED <<phase, loggerVars, envVars, last, setConsole, setFile>>

\* the steps of Handle made with h.mu held
ConSection == {"con_format", "con_write", "con_unlock"}

\* A mutex that never blocks.
MutexFree_Always(t) == TRUE

\* h.mu of the handler thread t called is not held by another thread
MutexFree(t) ==
    \A u \in Threads \ {t} : ~(pc[u] \in ConSection /\ loc[u].gate = loc[t].gate)

\* h.mu.Lock()
ConLock(t) ==
    /\ pc[t] = "con_lock"
    /\ MutexFree(t)
    /\ Goto(t, "con_format")
    /\ UNCHANGED <<phase, loggerVars, envVars, last, setConsole, setFile, loc>>

\* levelStr, msg and attrs are built
ConFormat(t) ==
    /\ pc[t] = "con_format"
    /\ Goto(t, "con_write")
    /\ UNCHANGED <<phase, loggerVars, envVars, last, setConsole, setFile, loc>>

\* fmt.Fprintln(h.out, msg): one line, in one Write
ConWrite(t) ==
    /\ pc[t] = "con_write"
    /\ console' = console + 1
    /\ Goto(t, "con_unlock")
    /\ UNCHANGED <<phase, loggerVars, handles, fs, last, setConsole, setFile, loc>>

\* the deferred h.mu.Unlock()
ConUnlock(t) ==
    /\ pc[t] = "con_unlock"
    /\ Goto(t, "log_check")
    /\ UNCHANGED <<phase, loggerVars, envVars, last, setConsole, setFile, loc>>

BeginLogStep == \E t \in Threads : BeginLog(t)
ConCheckStep == \E t \in Threads : ConCheck(t)
ConLockStep == \E t \in Threads : ConLock(t)
ConFormatStep == \E t \in Threads : ConFormat(t)
ConWriteStep == \E t \in Threads : ConWrite(t)
ConUnlockStep == \E t \in Threads : ConUnlock(t)

NextConsole ==
    \/ NewLoggerConsole
    \/ EnableConsoleFirst
    \/ BeginLogStep
    \/ ConCheckStep
    \/ ConLockStep
    \/ ConFormatStep
    \/ ConWriteStep
    \/ ConUnlockStep
    \/ LogCheckStep

SpecConsole == Init /\ [][NextConsole]_vars

\* ================================================================ claims
LiveHandles == {h \in 1..Len(handles) : handles[h].open}
\* the file sink is Active: flag set, sink built, its handle open
FileActive ==
    /\ config.LogToFile
    /\ ~fileLogger.isNil
    /\ fileWriter # 0
    /\ handles[fileWriter].open

\* C1: after any sequence of calls made one at a time, with open, close and
\* mkdir free to fail, at most one handle is live, and a live handle is the
\* one ml.fileWriter references; a failed NewLogger leaves none.
C1_OneLiveReferencedHandle ==
    /\ Cardinality(LiveHandles) <= 1
    /\ \A h \in LiveHandles : phase = "live" /\ fileWriter = h

\* C1 witness: a path change has swapped handles: the first is released, the
\* second is live and referenced.
C1_Witness ==
    /\ last = Ret("ChangeFilePath", FALSE)
    /\ Len(handles) = 2
    /\ ~handles[1].open
    /\ handles[2].open
    /\ fileWriter = 2

\* C2 (as claimed): a Close that follows a successful Close of an open handle
\* returns success too.
C2_SecondCloseSucceeds ==
    [][(/\ last = Ret("Close", FALSE)
        /\ fileWriter # 0
        /\ handles[fileWriter].closedBy = "Close"
        /\ CloseCall)
       => ~last'.err]_vars

\* C3 (as claimed): no call issues Close on a handle that an earlier call has
\* already released.
C3_NoCloseOfReleasedHandle ==
    \A h \in 1..Len(handles) : ~handles[h].reclosed

\* C4 (as claimed): once Close() has released the handle, no logging call
\* writes to the file sink built on that handle.
C4_NoWriteAfterClose ==
    [][\A level \in Levels :
         (Log(level) /\ FileEmits(level))
            => handles[fileLogger.out].closedBy # "Close"]_vars

\* the state right after EnableFile(false) has disabled an Active file sink
C5_JustDisabled ==
    /\ last = RetEnable("EnableFile", FALSE, FALSE)
    /\ ~config.LogToFile
    /\ fileWriter # 0
    /\ handles[fileWriter].closedBy = "EnableFile"

\* C5 (as claimed): EnableFile(false) on an Active sink followed by a
\* successful EnableFile(true) leaves the sink Active again: the flag is set,
\* the stored path is open, and a logging call that passes the file threshold
\* appends a line.
C5_ReenableRestoresActive ==
    [][(/\ C5_JustDisabled
        /\ last' = RetEnable("EnableFile", TRUE, FALSE)
        /\ \E fail \in Failures :
              EnableFile(TRUE, fail # "close", fail # "mkdir", fail # "open"))
       => (/\ FileActive'
           /\ handles'[fileWriter'].path = config'.LogFilePath
           /\ \A level \in Levels :
                 Enabled(level, GetFileLevel') => FileWrites(level)')]_vars

\* C6 (as claimed): a ChangeFilePath to a different path on an Active sink
\* that fails at mkdir or open, after the old handle was closed, returns an
\* error and leaves file logging disabled.
C6_FailedChangeDisablesFile ==
    [][\A newPath \in Paths, fail \in {"mkdir", "open"} :
         (/\ FileActive
          /\ newPath # config.LogFilePath
          /\ fail = "mkdir" => HasDir(newPath)
          /\ ChangeFilePath(newPath, TRUE, fail # "mkdir", fail # "open"))
            => (/\ last'.err
                /\ ~handles'[fileWriter].open
                /\ ~config'.LogToFile
                /\ \A level \in Levels : ~FileEmits(level)')]_vars

\* C7: a successful ChangeFilePath(B) on a sink Active on A, A # B, closes
\* A's handle, stores B and leaves the sink writing to a live handle on B;
\* and every logging call appends file lines to the stored path only.
C7_PathChangeIsolatesStreams ==
    [][/\ (/\ FileActive
           /\ last' = Ret("ChangeFilePath", FALSE)
           /\ \E newPath \in Paths \ {config.LogFilePath}, fail \in Failures :
                 ChangeFilePath(newPath, fail # "close", fail # "mkdir", fail # "open"))
          => (/\ ~handles'[fileWriter].open
              /\ config'.LogFilePath # config.LogFilePath
              /\ FileActive'
              /\ fileLogger'.out = fileWriter'
              /\ fileWriter' # fileWriter
              /\ handles'[fileWriter'].path = config'.LogFilePath)
       /\ (last'.op = "Log" /\ LogCall)
          => \A p \in Paths :
                fs'.lines[p] # fs.lines[p]
                   => (/\ p = config.LogFilePath
                       /\ FileActive
                       /\ fs'.lines[p] = fs.lines[p] + 1)]_vars

\* C7 witness: one record was written to A, the path was changed to B, and
\* the record logged after that is in B, with A's handle released.
C7_Witness ==
    /\ last.op = "Log"
    /\ Len(handles) = 2
    /\ handles[1].closedBy = "ChangeFilePath"
    /\ handles[1].path # handles[2].path
    /\ FileActive
    /\ fileWriter = 2
    /\ config.LogFilePath = handles[2].path
    /\ fs.lines[handles[1].path] = 1
    /\ fs.lines[handles[2].path] = 1

Quiescent == \A t \in Threads : pc[t] = "idle"

\* C8 (as claimed): under concurrent callers, a logging call whose
\* enabled-check passed on a live handle writes to its file sink only while
\* the file flag is set and that handle is still open.
C8_WriteOnlyWhileEnabledAndOpen ==
    [][\A t \in Threads :
         (/\ pc[t] = "log_file"
          /\ pc'[t] = "idle"
          /\ loc[t].live
          /\ LogWrites(t))
            => (config.LogToFile /\ handles[loc[t].h].open)]_vars

\* C9 (as claimed): once concurrent structural calls have all returned, at
\* most one handle is live and a live handle is the one ml.fileWriter
\* references.
C9_ConcurrentCallsLeaveOneHandle ==
    Quiescent => C1_OneLiveReferencedHandle

\* C10 (as claimed): a logging call at level L emits on an enabled sink iff
\* L >= T, T being the level of the latest SetConsoleLevel (SetFileLevel for
\* the file sink), or the configured initial level if there was none.
C10_EmitsIffAtLeastLatestSet ==
    [][\A level \in Levels :
         (last'.op = "Log" /\ Log(level))
            => (/\ (config.LogToConsole /\ ~consoleLogger.isNil)
                      => (console' = console + 1 <=> level >= setConsole)
                /\ FileActive
                      => (fs'.lines[config.LogFilePath] = fs.lines[config.LogFilePath] + 1
                             <=> level >= setFile))]_vars

\* the console sink is in use: flag set and sink built
ConsoleActive == config.LogToConsole /\ ~consoleLogger.isNil

C12_ConsoleRoundTripKeepsLevel ==
    [][(/\ last = RetEnable("EnableConsole", FALSE, FALSE)
        /\ last' = RetEnable("EnableConsole", TRUE, FALSE)
        /\ EnableConsole(TRUE))
       => (ConsoleActive' /\ GetConsoleLevel' = setConsole)]_vars

\* C13 (as claimed): no EnableFile call, the first EnableFile(true) on a
\* Logger built without file logging included, changes the value that
\* GetFileLevel() returns.
C13_EnableFileKeepsLevel ==
    [][(last'.op = "EnableFile" /\ EnableFileOk)
       => GetFileLevel' = GetFileLevel]_vars

\* C14: a ChangeFilePath to another path, made while file logging is enabled,
\* whose close of the current handle fails (the system call fails, or the
\* handle was closed before) returns an error and changes
\* neither the stored path, the handle reference, the file sink nor the
\* flag; it creates no file or directory and opens no handle.
C14_CloseFailureAbortsPathChange ==
    [][\A newPath \in Paths \ {config.LogFilePath} :
         (/\ config.LogToFile
          /\ last'.op = "ChangeFilePath"
          /\ \/ ChangeFilePath(newPath, FALSE, TRUE, TRUE)
             \/ ~handles[fileWriter].open /\ ChangeFilePath(newPath, TRUE, TRUE, TRUE))
            => (/\ last'.err
                /\ config' = config
                /\ fileWriter' = fileWriter
                /\ fileLogger' = fileLogger
                /\ fs' = fs
                /\ Len(handles') = Len(handles))]_vars

\* C14 witness: a path change has just failed at the close of the handle of
\* an enabled file sink; no second handle exists and the other path has no
\* file.
C14_Witness ==
    /\ last = RetFrom(Ret("ChangeFilePath", TRUE), "close")
    /\ config.LogToFile
    /\ handles[fileWriter].closedBy = "ChangeFilePath"
    /\ Len(handles) = 1
    /\ fs.files = {config.LogFilePath}

\* C15 (as claimed): a ChangeFilePath to the stored path changes nothing and
\* succeeds; a ChangeFilePath made while the file sink is not Active changes
\* the stored path only, succeeds, and opens, closes or creates nothing.
C15_PathChangeFrame ==
    [][\A newPath \in Paths :
         (/\ last'.op = "ChangeFilePath"
          /\ \E fail \in Failures :
                ChangeFilePath(newPath, fail # "close", fail # "mkdir", fail # "open"))
            => (/\ newPath = config.LogFilePath
                      => (~last'.err /\ config' = config)
                /\ (newPath # config.LogFilePath /\ ~FileActive)
                      => (~last'.err /\ config' = Repoint(config, newPath))
                /\ (newPath = config.LogFilePath \/ ~FileActive)
                      => (/\ handles' = handles
                          /\ fs' = fs
                          /\ fileWriter' = fileWriter
                          /\ fileLogger' = fileLogger))]_vars

\* The same frame, "not active" read as the code reads it: the flag
\* ml.config.LogToFile is false.
C15_FrameByFlag ==
    [][\A newPath \in Paths :
         (/\ last'.op = "ChangeFilePath"
          /\ \E fail \in Failures :
                ChangeFilePath(newPath, fail # "close", fail # "mkdir", fail # "open"))
            => (/\ newPath = config.LogFilePath
                      => (~last'.err /\ config' = config)
                /\ (newPath # config.LogFilePath /\ ~config.LogToFile)
                      => (~last'.err /\ config' = Repoint(config, newPath))
                /\ (newPath = config.LogFilePath \/ ~config.LogToFile)
                      => (/\ handles' = handles
                          /\ fs' = fs
                          /\ fileWriter' = fileWriter
                          /\ fileLogger' = fileLogger))]_vars

\* C17: a NewLogger with file logging requested whose MkdirAll or OpenFile
\* fails returns an error and no Logger: no call can follow on it, and the
\* constructor leaves no handle behind, open or not.
C17_FailedConstructionIsClean ==
    [][/\ phase # "failed"
       /\ last'.op = "NewLogger"
             => \A cfg \in FileConfigs, fail \in {"mkdir", "open"} :
                   (/\ cfg.LogToFile
                    /\ fail = "mkdir" => HasDir(cfg.LogFilePath)
                    /\ NewLogger(cfg, fail # "mkdir", fail # "open"))
                      => (/\ last'.err
                          /\ phase' = "failed"
                          /\ handles' = <<>>
                          /\ LiveHandles' = {})]_vars

\* C17 witness: the constructor made the directory, failed to open the file
\* and returned the error; there is no handle.
C17_Witness ==
    /\ phase = "failed"
    /\ last = RetFrom(Ret("NewLogger", TRUE), "open")
    /\ fs.dirs # {}
    /\ fs.files = {}
    /\ handles = <<>>

\* C18: after any sequence of calls made one at a time, the LevelVar that
\* Get/SetConsoleLevel read and write is the one the console sink consults,
\* and the LevelVar that Get/SetFileLevel read and write is the one the file
\* sink consults; so the level given to a Set call decides the next
\* emission of the sink in use.
C18_GateIdentity ==
    /\ ~consoleLogger.isNil => consoleLogger.level = consoleLevelVar
    /\ ~fileLogger.isNil => fileLogger.level = fileLevelVar
    /\ last.op = "SetConsoleLevel"
          => \A level \in Levels :
                ConsoleEmits(level) <=> (ConsoleActive /\ level >= setConsole)
    /\ last.op = "SetFileLevel"
          => \A level \in Levels :
                FileEmits(level) <=> (FileDispatched /\ level >= setFile)

\* C18 witness: both sinks were absent at construction and built by
\* EnableConsole(true) and EnableFile(true), the file sink was rebuilt by
\* ChangeFilePath, and a SetFileLevel has just raised its threshold above
\* the configured one.
C18_Witness ==
    /\ last.op = "SetFileLevel"
    /\ ConsoleActive
    /\ consoleLevelVar > 2
    /\ FileActive
    /\ fileLevelVar > 2
    /\ fileWriter = 2
    /\ GetFileLevel = LevelWarn
    /\ GetFileLevel # config.LevelForFile

\* C19: after any sequence of calls made one at a time, with open, close and
\* mkdir free to fail, a live handle is the one the Logger references and
\* was opened on the stored path; the EnableFile(true) that builds the first
\* file sink opens the path stored at that moment, whatever ChangeFilePath
\* stored there; and a ChangeFilePath that fails leaves no live handle on
\* another path.
C19_LiveHandleOnStoredPath ==
    [][/\ \A h \in LiveHandles' :
             h = fileWriter' /\ handles'[h].path = config'.LogFilePath
       /\ (/\ last' = RetEnable("EnableFile", TRUE, FALSE)
           /\ fileLogger.isNil
           /\ EnableFileCall)
          => (/\ FileActive'
              /\ handles'[fileWriter'].path = config.LogFilePath
              /\ config'.LogFilePath = config.LogFilePath)
       /\ (last'.op = "ChangeFilePath" /\ last'.err)
          => (/\ config'.LogFilePath = config.LogFilePath
              /\ \A h \in LiveHandles' : handles'[h].path = config.LogFilePath)]_vars

\* C19 witness: the only handle ever opened is live on the bare file name,
\* which is the stored path, while the one directory made is that of the
\* other path: the Logger was built without file logging on the path with a
\* directory, an EnableFile(true) made the directory and failed to open, the
\* path was changed with file logging never enabled, and the EnableFile(true)
\* that has just succeeded opened the new path.
C19_Witness ==
    /\ last = RetEnable("EnableFile", TRUE, FALSE)
    /\ FileActive
    /\ Len(handles) = 1
    /\ handles[1].path = PathB
    /\ config.LogFilePath = PathB
    /\ fs.dirs = {PathA}
    /\ fs.files = {PathB}

\* the threads inside the section of Handle that formats and writes
InConSection == {t \in Threads : pc[t] \in ConSection}

RECURSIVE SentBy(_)
\* the records of the threads in T that passed the console threshold
SentBy(T) ==
    IF T = {} THEN 0
    ELSE LET t == CHOOSE u \in T : TRUE IN loc[t].sent + SentBy(T \ {t})

\* C16: with threads that only log through one Logger, at most one thread
\* is inside the console sink's format-and-write section at any time, the
\* console never holds more lines than records passed its threshold, and
\* once every call has returned it holds exactly one line per such record.
C16_ConsoleLinesWholeAndCounted ==
    /\ Cardinality(InConSection) <= 1
    /\ console <= SentBy(Threads)
    /\ Quiescent => console = SentBy(Threads)

\* C16 witness: every thread has made all its calls, each record passed the
\* threshold, and the console holds threads x calls lines.
C16_Witness ==
    /\ Quiescent
    /\ \A t \in Threads : loc[t].n = MaxCalls /\ loc[t].sent = MaxCalls
    /\ console = Cardinality(Threads) * MaxCalls
====
